---- MODULE Spec2Model ----
(***************************************************************************)
(* sanitize-filename (src/src/lib.rs): sanitize_with_options and           *)
(* is_sanitized_with_options.                                              *)
(*                                                                         *)
(* A Rust str is modelled as the sequence of its chars (Unicode scalar     *)
(* values, as numbers).  Where the code works on bytes (len, the           *)
(* is_char_boundary loop, the slice at `end`) the model goes through the   *)
(* UTF-8 encoding of that sequence.  Slicing a str off a char boundary     *)
(* panics in Rust; the model records that as pc = "panic".                 *)
(*                                                                         *)
(* The state machine is a caller that validates a name, sanitizes it,      *)
(* validates the result and sanitizes the result once more, with every     *)
(* statement of sanitize_with_options as its own step.                     *)
(***************************************************************************)
EXTENDS Integers, Sequences, FiniteSets, TLC

VARIABLES
    input,        \* the caller's text x
    windows,      \* Options.windows / OptionsForCheck.windows
    truncate,     \* Options.truncate / OptionsForCheck.truncate
    replacement,  \* Options.replacement
    name,         \* `name` of the running call (lib.rs:115-147)
    end,          \* `end` of the truncation block (lib.rs:131); 0: not set by this call
    pc,           \* position of the caller / of sanitize_with_options
    pass,         \* 1: first call on x, 2: second call on the first output
    out1,         \* what the first sanitize_with_options call returned
    ok            \* results of is_sanitized_with_options: <<on x, on out1>>

vars == <<input, windows, truncate, replacement, name, end, pc, pass, out1, ok>>

-----------------------------------------------------------------------------
(* Bounds of the model *)

\* longest tail of chars appended to a head
MaxTail == 2
\* the long inputs start with MaxBytes - PadSlack .. MaxBytes copies of 'a'
PadSlack == 3

-----------------------------------------------------------------------------
(* Rule tables: lib.rs:3-15 *)

\* "con" "prn" "aux" "nul" "com0".."com9" "lpt0".."lpt9"
WINDOWS_RESERVED ==
    {<<99, 111, 110>>, <<112, 114, 110>>, <<97, 117, 120>>, <<110, 117, 108>>}
        \cup {<<99, 111, 109, d>> : d \in 48..57}
        \cup {<<108, 112, 116, d>> : d \in 48..57}

\* matches!(ch, '/' | '?' | '<' | '>' | '\\' | ':' | '*' | '|' | '"')
is_illegal_char(ch) == ch \in {47, 63, 60, 62, 92, 58, 42, 124, 34}

\* faulty variant: the C1 range 0x80..0x9f forgotten
is_control_char_c0_only(ch) == ch <= 31

\* (code <= 0x1f) || (code >= 0x80 && code <= 0x9f)
is_control_char(ch) == (ch <= 31) \/ (ch >= 128 /\ ch <= 159)

\* the length cap of lib.rs:130, 131 and 179
MaxBytes == 255

-----------------------------------------------------------------------------
(* str primitives of the standard library, as the code uses them *)

\* char::encode_utf8: the bytes of one char
encode_utf8(c) ==
    IF c < 128 THEN <<c>>
    ELSE IF c < 2048 THEN <<192 + (c \div 64), 128 + (c % 64)>>
    ELSE IF c < 65536 THEN
        <<224 + (c \div 4096), 128 + ((c \div 64) % 64), 128 + (c % 64)>>
    ELSE <<240 + (c \div 262144), 128 + ((c \div 4096) % 64),
           128 + ((c \div 64) % 64), 128 + (c % 64)>>

\* str::as_bytes, over the chars lo..hi of s
RECURSIVE as_bytes_range(_, _, _)
as_bytes_range(s, lo, hi) ==
    IF lo > hi THEN <<>>
    ELSE IF lo = hi THEN encode_utf8(s[lo])
    ELSE LET mid == (lo + hi) \div 2
         IN  as_bytes_range(s, lo, mid) \o as_bytes_range(s, mid + 1, hi)

as_bytes(s) == as_bytes_range(s, 1, Len(s))

\* str::len: the number of bytes, one per char and one more for each char of
\* at least 2, 3 and 4 bytes
str_len(s) ==
    Len(s) + Cardinality({i \in DOMAIN s : s[i] >= 128})
           + Cardinality({i \in DOMAIN s : s[i] >= 2048})
           + Cardinality({i \in DOMAIN s : s[i] >= 65536})

\* u8::is_utf8_char_boundary: (b as i8) >= -0x40, not a continuation byte
is_utf8_char_boundary(b) == b < 128 \/ b >= 192

\* faulty variant: only the two ends of the string count as boundaries
is_char_boundary_ends_only(s, index) == index = 0 \/ index = str_len(s)

\* str::is_char_boundary(index)
is_char_boundary(s, index) ==
    IF index = 0 THEN TRUE
    ELSE IF index >= str_len(s) THEN index = str_len(s)
    ELSE is_utf8_char_boundary(as_bytes(s)[index + 1])

\* &s[..end] / String::truncate(end) for end on a char boundary: the chars whose
\* first byte lies among the first `end` bytes
str_truncate(s, e) ==
    LET bytes == as_bytes(s)
        k == Cardinality({i \in 1..e : is_utf8_char_boundary(bytes[i])})
    IN  SubSeq(s, 1, k)

\* u8::to_ascii_lowercase, on a char
to_ascii_lowercase(c) == IF c \in 65..90 THEN c + 32 ELSE c

\* str::eq_ignore_ascii_case
eq_ignore_ascii_case(a, b) ==
    /\ Len(a) = Len(b)
    /\ \A i \in DOMAIN a : to_ascii_lowercase(a[i]) = to_ascii_lowercase(b[i])

\* faulty variant: the name is not split at its first '.'
split_base_whole(s) == s

\* name.split_once(".").map(|(base, _)| base).unwrap_or(name)
split_base(s) ==
    LET dots == {i \in DOMAIN s : s[i] = 46}
    IN  IF dots = {} THEN s
        ELSE SubSeq(s, 1, (CHOOSE i \in dots : \A j \in dots : i <= j) - 1)

\* faulty variant: only '.' is trimmed, ' ' is not
trim_end_matches_dots_only(s) ==
    LET keep == {i \in DOMAIN s : s[i] # 46}
    IN  IF keep = {} THEN <<>>
        ELSE SubSeq(s, 1, CHOOSE i \in keep : \A j \in keep : j <= i)

\* name.trim_end_matches([' ', '.'])
trim_end_matches(s) ==
    LET keep == {i \in DOMAIN s : s[i] \notin {32, 46}}
    IN  IF keep = {} THEN <<>>
        ELSE SubSeq(s, 1, CHOOSE i \in keep : \A j \in keep : j <= i)

-----------------------------------------------------------------------------
(* lib.rs:17-37 *)

\* the loop body after `result` is Some: push_str(replacement) or push(c),
\* for the chars lo..hi
RECURSIVE push_rest(_, _, _, _)
push_rest(s, r, lo, hi) ==
    IF lo > hi THEN <<>>
    ELSE IF lo = hi THEN
        IF is_illegal_char(s[lo]) \/ is_control_char(s[lo]) THEN r ELSE <<s[lo]>>
    ELSE LET mid == (lo + hi) \div 2
         IN  push_rest(s, r, lo, mid) \o push_rest(s, r, mid + 1, hi)

replace_illegal_or_control_char(s, r) ==
    LET hits == {i \in DOMAIN s : is_illegal_char(s[i]) \/ is_control_char(s[i])}
    IN  IF hits = {} THEN s     \* result.map(Cow::Owned).unwrap_or(name)
        ELSE LET i == CHOOSE h \in hits : \A j \in hits : h <= j
             IN  (SubSeq(s, 1, i - 1) \o r) \o push_rest(s, r, i + 1, Len(s))

(* lib.rs:39-45 *)
is_reserved(s) ==
    IF s = <<>> THEN FALSE ELSE \A i \in DOMAIN s : s[i] = 46

(* lib.rs:47-60 *)
is_windows_reserved(s) ==
    IF s = <<>> THEN FALSE
    ELSE LET base == split_base(s)
         IN  \E reserved \in WINDOWS_RESERVED : eq_ignore_ascii_case(base, reserved)

(* lib.rs:62-68 *)
has_windows_trailing(s) ==
    IF s = <<>> THEN FALSE ELSE s[Len(s)] = 46 \/ s[Len(s)] = 32

\* faulty variant: one trailing char is stripped instead of the whole run
replace_windows_trailing_one(s, r) ==
    IF s = <<>> \/ s[Len(s)] \notin {32, 46} THEN s
    ELSE IF Len(s) = 1 THEN r
    ELSE SubSeq(s, 1, Len(s) - 1) \o r

(* lib.rs:70-84 *)
replace_windows_trailing(s, r) ==
    LET trimmed == trim_end_matches(s)
    IN  IF str_len(trimmed) = str_len(s) THEN s
        ELSE IF trimmed = <<>> THEN r
        ELSE trimmed \o r

\* faulty variant: the has_windows_trailing check is missing
is_sanitized_no_trailing(s, w, t) ==
    IF s = <<>> THEN TRUE
    ELSE IF t /\ str_len(s) > MaxBytes THEN FALSE
    ELSE IF is_reserved(s) THEN FALSE
    ELSE IF w /\ is_windows_reserved(s) THEN FALSE
    ELSE IF \E i \in DOMAIN s : is_illegal_char(s[i]) \/ is_control_char(s[i]) THEN FALSE
    ELSE TRUE

\* faulty variant: the is_windows_reserved check is missing
is_sanitized_no_windows_reserved(s, w, t) ==
    IF s = <<>> THEN TRUE
    ELSE IF t /\ str_len(s) > MaxBytes THEN FALSE
    ELSE IF is_reserved(s) THEN FALSE
    ELSE IF w /\ has_windows_trailing(s) THEN FALSE
    ELSE IF \E i \in DOMAIN s : is_illegal_char(s[i]) \/ is_control_char(s[i]) THEN FALSE
    ELSE TRUE

(* lib.rs:169-204 *)
is_sanitized_with_options(s, w, t) ==
    IF s = <<>> THEN TRUE
    ELSE IF t /\ str_len(s) > MaxBytes THEN FALSE
    ELSE IF is_reserved(s) THEN FALSE
    ELSE IF w /\ is_windows_reserved(s) THEN FALSE
    ELSE IF w /\ has_windows_trailing(s) THEN FALSE
    ELSE IF \E i \in DOMAIN s : is_illegal_char(s[i]) \/ is_control_char(s[i]) THEN FALSE
    ELSE TRUE

-----------------------------------------------------------------------------
(* The inputs *)

Seqs(S, n) == UNION {[1..k -> S] : k \in 0..n}

\* 'a' k times
Pad(k) == [i \in 1..k |-> 97]

\* "", "con", "LpT9"
ShortHeads == {<<>>, <<99, 111, 110>>, <<76, 112, 84, 57>>}

\* '.', ' ', '?', 'a', U+0085 (control, 2 bytes), U+1F600 (4 bytes)
ShortChars == {46, 32, 63, 97, 133, 128512}

\* '.', '?', U+1F600
LongChars == {46, 63, 128512}

Inputs ==
    {h \o t : h \in ShortHeads, t \in Seqs(ShortChars, MaxTail)}
        \cup {Pad(k) \o t : k \in (MaxBytes - PadSlack)..MaxBytes,
                            t \in Seqs(LongChars, MaxTail)}

\* "", "_", "?", "-."
Replacements == {<<>>, <<95>>, <<63>>, <<45, 46>>}

-----------------------------------------------------------------------------
(* The caller and the steps of sanitize_with_options *)

Init ==
    /\ input \in Inputs
    /\ windows \in BOOLEAN
    /\ truncate \in BOOLEAN
    /\ replacement \in Replacements
    /\ name = input
    /\ end = 0
    /\ pc = "start"
    /\ pass = 1
    /\ out1 = <<>>
    /\ ok = <<>>

\* is_sanitized_with_options(name, OptionsForCheck {windows, truncate})
Validate ==
    /\ pc = "start"
    /\ ok' = Append(ok, is_sanitized_with_options(name, windows, truncate))
    /\ pc' = "call"
    /\ UNCHANGED <<input, windows, truncate, replacement, name, end, pass, out1>>

\* lib.rs:115-116
Filter ==
    /\ pc = "call"
    /\ name' = replace_illegal_or_control_char(name, replacement)
    /\ end' = 0
    /\ pc' = "filtered"
    /\ UNCHANGED <<input, windows, truncate, replacement, pass, out1, ok>>

\* lib.rs:118-122
Reserved ==
    /\ pc = "filtered"
    /\ name' = IF is_reserved(name) THEN replacement ELSE name
    /\ pc' = IF windows THEN "windows" ELSE "truncate"
    /\ UNCHANGED <<input, windows, truncate, replacement, end, pass, out1, ok>>

\* lib.rs:123
WindowsTrailing ==
    /\ pc = "windows"
    /\ name' = replace_windows_trailing(name, replacement)
    /\ pc' = "trimmed"
    /\ UNCHANGED <<input, windows, truncate, replacement, end, pass, out1, ok>>

\* lib.rs:125-128
WindowsReserved ==
    /\ pc = "trimmed"
    /\ name' = IF is_windows_reserved(name) THEN replacement ELSE name
    /\ pc' = "truncate"
    /\ UNCHANGED <<input, windows, truncate, replacement, end, pass, out1, ok>>

\* lib.rs:130-131, and 147 when the block is skipped
TruncateCheck ==
    /\ pc = "truncate"
    /\ IF truncate /\ str_len(name) > MaxBytes
       THEN end' = MaxBytes /\ pc' = "loop"
       ELSE end' = end /\ pc' = "done"
    /\ UNCHANGED <<input, windows, truncate, replacement, name, pass, out1, ok>>

\* faulty variant: the cut is made at 255 without backing off to a char boundary
TruncateLoop_no_backoff ==
    /\ pc = "loop"
    /\ pc' = "cut"
    /\ UNCHANGED <<input, windows, truncate, replacement, name, end, pass, out1, ok>>

\* lib.rs:132-134: one evaluation of the while condition; `end -= 1` at 0
\* overflows usize
TruncateLoop ==
    /\ pc = "loop"
    /\ IF is_char_boundary(name, end)
       THEN end' = end /\ pc' = "cut"
       ELSE IF end = 0
            THEN end' = end /\ pc' = "panic"
            ELSE end' = end - 1 /\ pc' = pc
    /\ UNCHANGED <<input, windows, truncate, replacement, name, pass, out1, ok>>

\* lib.rs:136-147; both arms cut at `end`, and both panic off a char boundary
TruncateCut ==
    /\ pc = "cut"
    /\ IF is_char_boundary(name, end)
       THEN name' = str_truncate(name, end) /\ pc' = "done"
       ELSE name' = name /\ pc' = "panic"
    /\ UNCHANGED <<input, windows, truncate, replacement, end, pass, out1, ok>>

\* the caller hands the output back in: is_sanitized_with_options on it, then
\* sanitize_with_options(output, same options)
Again ==
    /\ pc = "done"
    /\ pass = 1
    /\ out1' = name
    /\ pass' = 2
    /\ pc' = "start"
    /\ UNCHANGED <<input, windows, truncate, replacement, name, end, ok>>

Next ==
    \/ Validate
    \/ Filter
    \/ Reserved
    \/ WindowsTrailing
    \/ WindowsReserved
    \/ TruncateCheck
    \/ TruncateLoop
    \/ TruncateCut
    \/ Again

Spec == Init /\ [][Next]_vars

-----------------------------------------------------------------------------
(* What the specification says, stated without the code's helpers *)

\* an illegal or a control character
RefBad(c) == c \in {47, 63, 60, 62, 92, 58, 42, 124, 34} \cup (0..31) \cup (128..159)

RefHasBad(s) == \E i \in DOMAIN s : RefBad(s[i])

\* a non-empty name made of '.' only
RefAllDots(s) == Len(s) > 0 /\ {s[i] : i \in DOMAIN s} = {46}

RefEndsDotOrSpace(s) == Len(s) > 0 /\ s[Len(s)] \in {46, 32}

\* the UTF-8 length: 1, 2, 3 or 4 bytes per code point
RefBytes(s) ==
    Len(SelectSeq(s, LAMBDA c : c < 128))
        + 2 * Len(SelectSeq(s, LAMBDA c : c >= 128 /\ c < 2048))
        + 3 * Len(SelectSeq(s, LAMBDA c : c >= 2048 /\ c < 65536))
        + 4 * Len(SelectSeq(s, LAMBDA c : c >= 65536))

\* the portion of s before its first '.', or all of s
RefStem(s) ==
    LET k == CHOOSE n \in 0..Len(s) :
                 /\ \A i \in 1..n : s[i] # 46
                 /\ (n = Len(s) \/ s[n + 1] = 46)
    IN  SubSeq(s, 1, k)

RefLower(s) == [i \in DOMAIN s |-> IF s[i] >= 65 /\ s[i] <= 90 THEN s[i] + 32 ELSE s[i]]

\* s names a Windows device: its stem is a reserved one, whatever the case
RefReservedStem(s) == RefLower(RefStem(s)) \in WINDOWS_RESERVED

\* s without its maximal suffix of '.' and ' '
RefTrimmed(s) ==
    LET k == CHOOSE n \in 0..Len(s) :
                 /\ \A i \in (n + 1)..Len(s) : s[i] \in {46, 32}
                 /\ (n = 0 \/ s[n] \notin {46, 32})
    IN  SubSeq(s, 1, k)

\* p is the longest prefix of s of at most MaxBytes bytes, s being longer
RefLongestPrefix(p, s) ==
    /\ Len(p) < Len(s)
    /\ p = SubSeq(s, 1, Len(p))
    /\ RefBytes(p) <= MaxBytes
    /\ RefBytes(SubSeq(s, 1, Len(p) + 1)) > MaxBytes

\* out is s with each illegal or control character replaced by one copy of r
RefFiltered(s, r, out) ==
    LET hits == {i \in DOMAIN s : RefBad(s[i])}
        off(i) == (i - 1) + Cardinality({h \in hits : h < i}) * (Len(r) - 1)
    IN  /\ Len(out) = off(Len(s) + 1)
        /\ \A i \in DOMAIN s :
               IF i \in hits THEN SubSeq(out, off(i) + 1, off(i) + Len(r)) = r
               ELSE out[off(i) + 1] = s[i]
        /\ (hits = {} => out = s)

\* the validator's verdict on s
RefSanitized(s, w, t) ==
    \/ s = <<>>
    \/ /\ ~RefHasBad(s)
       /\ ~RefAllDots(s)
       /\ w => (~RefReservedStem(s) /\ ~RefEndsDotOrSpace(s))
       /\ t => RefBytes(s) <= MaxBytes

\* the result for windows = true, truncate = true, replacement = ""
RefSanitize(x) ==
    LET D == SelectSeq(x, LAMBDA c : ~RefBad(c))
        T == RefTrimmed(D)
    IN  IF RefReservedStem(T) THEN <<>>
        ELSE IF RefBytes(T) <= MaxBytes THEN T
        ELSE SubSeq(T, 1, CHOOSE n \in 0..(Len(T) - 1) :
                              /\ RefBytes(SubSeq(T, 1, n)) <= MaxBytes
                              /\ RefBytes(SubSeq(T, 1, n + 1)) > MaxBytes)

\* the first call has returned: name is sanitize_with_options(input, options)
Returned1 == pass = 1 /\ pc = "done"

-----------------------------------------------------------------------------
(* The claims *)

\* C1 as stated: for every x, windows/truncate and replacement,
\* is_sanitized_with_options(x) is true iff sanitize_with_options(x) = x.
C1_EquivalenceAnyReplacement == Returned1 => (ok[1] <=> name = input)

\* C1, amended: a name that is_sanitized_with_options accepts is returned
\* unchanged by sanitize_with_options whatever the replacement, and with
\* replacement = "" a name returned unchanged is one the validator accepts.
C1_Equivalence ==
    Returned1 =>
        /\ ok[1] => name = input
        /\ (replacement = <<>> /\ name = input) => ok[1]

C1_Witness ==
    /\ Returned1 /\ input # <<>> /\ name = input /\ ok[1]
    /\ windows /\ truncate /\ replacement # <<>>

\* C2: the output of sanitize_with_options satisfies is_sanitized_with_options
\* under the same windows/truncate, for every input and every Options; taken
\* here at the default replacement "", where nothing unfiltered is inserted.
C2_OutputIsSanitized == (pass = 2 /\ Len(ok) = 2 /\ replacement = <<>>) => ok[2]

\* C3: sanitizing the output again, with the same Options, returns it
\* unchanged; taken here at the default replacement "".
C3_Idempotent == (pass = 2 /\ pc = "done" /\ replacement = <<>>) => name = out1

\* C4: the truncation block never slices inside a code point; with truncate the
\* output has at most 255 bytes; a string of more than 255 bytes is cut to its
\* longest prefix of at most 255 bytes, and any other string (or any string
\* when truncate is off) is returned uncut.
C4_CodePointBoundary ==
    [][/\ pc' # "panic"
       /\ (pc \in {"truncate", "cut"} /\ pc' = "done") =>
              /\ truncate => RefBytes(name') <= MaxBytes
              /\ IF truncate /\ RefBytes(name) > MaxBytes
                 THEN RefLongestPrefix(name', name)
                 ELSE name' = name]_vars

\* a cut made after backing off from the middle of a code point
C4_Witness == pass = 1 /\ pc = "done" /\ end > 0 /\ end < MaxBytes

\* C5: with windows, truncate and replacement = "", the output is the reference
\* result: delete the illegal and control characters, drop the trailing run of
\* '.' and ' ', then "" for a reserved stem and else the longest prefix of at
\* most 255 bytes.
C5_Reference ==
    (Returned1 /\ windows /\ truncate /\ replacement = <<>>) => name = RefSanitize(input)

\* "con?." : reserved only after the '?' is deleted and the '.' trimmed
C5_Witness ==
    /\ Returned1 /\ windows /\ truncate /\ replacement = <<>>
    /\ input = <<99, 111, 110, 63, 46>> /\ name = <<>>

\* C6: replace_illegal_or_control_char replaces each illegal or control
\* character by one copy of the replacement, keeps every other character in
\* order, does not filter the inserted replacement, and returns a text with no
\* such character unchanged.
C6_CharacterFilter ==
    [][(pc = "call" /\ pc' = "filtered") => RefFiltered(name, replacement, name')]_vars

\* U+0085 and '?' replaced, U+1F600 kept, the replacement '?' left in the output
C6_Witness ==
    /\ pc = "filtered" /\ pass = 1 /\ replacement = <<63>>
    /\ input = <<133, 128512>> /\ name = <<63, 128512>>

\* C7: replace_windows_trailing removes the maximal suffix of '.' and ' ';
\* nothing removed: s unchanged; nothing left: exactly r; else the remainder
\* followed by one copy of r.
C7_TrailingTrimmer ==
    [][(pc = "windows" /\ pc' = "trimmed") =>
           LET rest == RefTrimmed(name)
           IN  name' = IF rest = name THEN name
                       ELSE IF rest = <<>> THEN replacement
                       ELSE rest \o replacement]_vars

\* "con. " with replacement "_" became "con_"
C7_Witness ==
    /\ pc = "trimmed" /\ pass = 1 /\ replacement = <<95>>
    /\ input = <<99, 111, 110, 46, 32>> /\ name = <<99, 111, 110, 95>>

\* C8: is_sanitized_with_options is true for "" and otherwise exactly when the
\* name has no illegal or control character, is not all dots, in Windows mode
\* has no reserved stem and no trailing '.' or ' ', and with truncate has at
\* most 255 bytes.
C8_Validator == pc = "call" => (ok[pass] <=> RefSanitized(name, windows, truncate))

\* a name rejected for its reserved stem alone
C8_Witness ==
    /\ pc = "call" /\ pass = 1 /\ windows /\ ~ok[1]
    /\ RefReservedStem(name) /\ ~RefHasBad(name) /\ ~RefEndsDotOrSpace(name)

\* how far a state is from the second call's return: the calls left, the
\* statements left in the call, and inside the loop the cut index
PcRank ==
    [start |-> 8, call |-> 7, filtered |-> 6, windows |-> 5, trimmed |-> 4,
     truncate |-> 3, loop |-> 2, cut |-> 1, done |-> 0, panic |-> 0]

StepsLeft == (2 - pass) * 3000 + PcRank[pc] * 300 + (IF pc = "loop" THEN end ELSE 0)

\* C9: every call returns: each state is at a statement of the code (every
\* one of which can be executed) or at the return, no step panics, every step
\* brings the second return nearer (so the loop terminates), and
\* the truncation loop keeps the cut index within 3 decrements of 255, never
\* below 0.
C9_Totality ==
    /\ [](pc \in {"start", "call", "filtered", "windows", "trimmed", "truncate",
                  "loop", "cut", "done"})
    /\ [][/\ pc' # "panic"
          /\ StepsLeft' >= 0 /\ StepsLeft' < StepsLeft
          /\ pc' \in {"loop", "cut"} => (end' >= 0 /\ end' >= MaxBytes - 3)]_vars

\* three decrements: the cut index backed off across a 4-byte code point
C9_Witness == pc = "cut" /\ end = MaxBytes - 3

\* C10: with replacement = "" and a first call that did not cut, the output
\* passes is_sanitized_with_options: no illegal or control character, not all
\* dots, and in Windows mode no reserved stem and no trailing '.' or ' '.
C10_UncutOutputIsSanitized ==
    (pass = 2 /\ pc = "call" /\ replacement = <<>> /\ end = 0) =>
        /\ ok[2]
        /\ ~RefHasBad(out1)
        /\ ~RefAllDots(out1)
        /\ windows => (~RefReservedStem(out1) /\ ~RefEndsDotOrSpace(out1))

\* a changed, non-empty output in Windows mode
C10_Witness ==
    /\ pass = 2 /\ pc = "call" /\ replacement = <<>> /\ end = 0
    /\ windows /\ out1 # <<>> /\ out1 # input /\ ok[2]

====
